---- MODULE Spec2Model ----
(***************************************************************************)
(* The paper-trading ledger of paper_trader.py (class PaperTrader).        *)
(*                                                                         *)
(* The ledger is three SQLite tables behind one connection.  The model     *)
(* keeps the connection's view of the tables (wallet, positions, orders)   *)
(* and the last committed contents (disk): statements change the view,     *)
(* conn.commit() copies the view to disk, a process restart throws the     *)
(* view away and reads disk again.                                         *)
(*                                                                         *)
(* REAL columns and Python floats are modelled as exact rationals          *)
(* <<numerator, denominator>> in lowest terms; binary rounding of the      *)
(* floating-point operations is not modelled.                              *)
(*                                                                         *)
(* main.py runs the market scan as coroutines on one event loop: scans     *)
(* holds the position and the locals of each, running the one that has    *)
(* the loop.                                                               *)
(***************************************************************************)
EXTENDS Integers, Sequences, FiniteSets, TLC

VARIABLES wallet, positions, orders, disk, hist, last, scans, running

vars == <<wallet, positions, orders, disk, hist, last, scans, running>>

scanvars == <<scans, running>>

(***************************************************************************)
(* Bounds of the model.                                                    *)
(***************************************************************************)
MaxCash == 2      \* most dollars in the ledger: the wallet plus what the positions cost
MaxOrders == 2    \* most rows in the orders table
MaxCandidates == 2    \* most candidates scan_market returns to one scan

(***************************************************************************)
(* The arguments the operations are called with.  Prices are positive.     *)
(* Orders are queued the way run_market_scan queues them: a LIMIT_BUY      *)
(* with a positive dollar amount, a STOP_LOSS with amount 0.               *)
(***************************************************************************)
Tickers == {"X", "Y"}
Actions == {"BUY", "SELL"}
OrderTypes == {"LIMIT_BUY", "STOP_LOSS"}
Prices == {1, 2}
Amounts == {0, 1}
Cash == 0..MaxCash

(***************************************************************************)
(* Arithmetic on REAL values.                                              *)
(***************************************************************************)
Abs(i) == IF i < 0 THEN -i ELSE i

RECURSIVE GCD(_, _)
GCD(a, b) == IF b = 0 THEN a ELSE GCD(b, a % b)

Norm(n, d) ==
    LET sn == IF d < 0 THEN -n ELSE n
        sd == Abs(d)
        g == GCD(Abs(sn), sd)
    IN <<sn \div g, sd \div g>>

R(i) == <<i, 1>>

RAdd(a, b) == Norm(a[1] * b[2] + b[1] * a[2], a[2] * b[2])

RSub(a, b) == Norm(a[1] * b[2] - b[1] * a[2], a[2] * b[2])

RMul(a, b) == Norm(a[1] * b[1], a[2] * b[2])

RDiv(a, b) == Norm(a[1] * b[2], a[2] * b[1])

RLt(a, b) == a[1] * b[2] < b[1] * a[2]

RLe(a, b) == a[1] * b[2] <= b[1] * a[2]

Zero == R(0)

(***************************************************************************)
(* The store.  A ledger value s is the connection's view of the tables,    *)
(* the committed contents (disk), and hist.  hist is bookkeeping the       *)
(* program does not keep: for each ticker, what the successful buys since  *)
(* its position row was created add up to (spent = sum of amount_usd,      *)
(* qty = sum of amount_usd / price, pxspent = sum of amount_usd * price,   *)
(* deducted = dollars taken from the wallet).                              *)
(***************************************************************************)
NoHist == [spent |-> Zero, qty |-> Zero, pxspent |-> Zero, deducted |-> Zero]

EmptyPositions == [t \in {} |-> Zero]

Tables(s) == [wallet |-> s.wallet, positions |-> s.positions, orders |-> s.orders]

commit(s) == [s EXCEPT !.disk = Tables(s)]

get_balance(s) == s.wallet

get_position_exposure(s, ticker) ==
    IF ticker \in DOMAIN s.positions
    THEN RMul(s.positions[ticker].amount, s.positions[ticker].avg_cost)
    ELSE Zero

Result(s, ret, exc) == [s |-> s, ret |-> ret, exc |-> exc]

RecordBuy(h, price, amount_usd, deducted) ==
    [spent |-> RAdd(h.spent, amount_usd),
     qty |-> RAdd(h.qty, RDiv(amount_usd, price)),
     pxspent |-> RAdd(h.pxspent, RMul(amount_usd, price)),
     deducted |-> RAdd(h.deducted, deducted)]

(***************************************************************************)
(* execute_trade.  new_avg is the weighted average of an existing row;     *)
(* upsert_position is the UPDATE or INSERT of the position row;            *)
(* execute_buy is the path after the funds check: the wallet UPDATE, the   *)
(* upsert and the commit.  A division by zero raises before the commit     *)
(* and leaves the statements already executed in the open transaction.     *)
(***************************************************************************)
new_avg_unweighted(current_qty, current_avg, amount_usd, quantity) ==
    RDiv(RAdd(current_avg, amount_usd), RAdd(current_qty, quantity))

new_avg(current_qty, current_avg, amount_usd, quantity) ==
    LET total_cost == RAdd(RMul(current_qty, current_avg), amount_usd)
        total_qty == RAdd(current_qty, quantity)
    IN RDiv(total_cost, total_qty)

upsert_position(rows, ticker, price, amount_usd, quantity) ==
    IF ticker \in DOMAIN rows THEN
        LET current_qty == rows[ticker].amount
            current_avg == rows[ticker].avg_cost
        IN [rows EXCEPT ![ticker] =
                [amount |-> RAdd(current_qty, quantity),
                 avg_cost |-> new_avg(current_qty, current_avg, amount_usd, quantity)]]
    ELSE [x \in DOMAIN rows \cup {ticker} |->
            IF x = ticker THEN [amount |-> quantity, avg_cost |-> price] ELSE rows[x]]

HistAfter(s, ticker, price, amount_usd, deducted) ==
    RecordBuy(IF ticker \in DOMAIN s.positions THEN s.hist[ticker] ELSE NoHist,
              price, amount_usd, deducted)

execute_buy_commits_early(s, balance, ticker, price, amount_usd) ==
    IF price = Zero THEN Result(s, "None", "ZeroDivisionError")
    ELSE
        LET quantity == RDiv(amount_usd, price)
            new_balance == RSub(balance, amount_usd)
            s1 == commit([s EXCEPT !.wallet = new_balance])
        IN  IF ticker \in DOMAIN s1.positions
               /\ RAdd(s1.positions[ticker].amount, quantity) = Zero
            THEN Result(s1, "None", "ZeroDivisionError")
            ELSE Result([s1 EXCEPT
                           !.positions = upsert_position(@, ticker, price, amount_usd, quantity),
                           !.hist[ticker] = HistAfter(s, ticker, price, amount_usd,
                                                      RSub(balance, new_balance))],
                        "BOUGHT", "none")

execute_buy_deducts_units(s, balance, ticker, price, amount_usd) ==
    IF price = Zero THEN Result(s, "None", "ZeroDivisionError")
    ELSE
        LET quantity == RDiv(amount_usd, price)
            new_balance == RSub(balance, quantity)
            s1 == [s EXCEPT !.wallet = new_balance]
        IN  IF ticker \in DOMAIN s1.positions
               /\ RAdd(s1.positions[ticker].amount, quantity) = Zero
            THEN Result(s1, "None", "ZeroDivisionError")
            ELSE Result(commit([s1 EXCEPT
                           !.positions = upsert_position(@, ticker, price, amount_usd, quantity),
                           !.hist[ticker] = HistAfter(s, ticker, price, amount_usd,
                                                      RSub(balance, new_balance))]),
                        "BOUGHT", "none")

execute_buy(s, balance, ticker, price, amount_usd) ==
    IF price = Zero THEN Result(s, "None", "ZeroDivisionError")
    ELSE
        LET quantity == RDiv(amount_usd, price)
            new_balance == RSub(balance, amount_usd)
            s1 == [s EXCEPT !.wallet = new_balance]
        IN  IF ticker \in DOMAIN s1.positions
               /\ RAdd(s1.positions[ticker].amount, quantity) = Zero
            THEN Result(s1, "None", "ZeroDivisionError")
            ELSE Result(commit([s1 EXCEPT
                           !.positions = upsert_position(@, ticker, price, amount_usd, quantity),
                           !.hist[ticker] = HistAfter(s, ticker, price, amount_usd,
                                                      RSub(balance, new_balance))]),
                        "BOUGHT", "none")

execute_trade_charges_first(s, ticker, action, price, amount_usd) ==
    LET balance == get_balance(s) IN
    IF action = "BUY" THEN
        IF RLt(balance, amount_usd)
        THEN Result([s EXCEPT !.wallet = RSub(balance, amount_usd)], "Insufficient Funds", "none")
        ELSE execute_buy(s, balance, ticker, price, amount_usd)
    ELSE Result(s, "Unknown Action", "none")

execute_trade_unchecked(s, ticker, action, price, amount_usd) ==
    IF action = "BUY" THEN execute_buy(s, get_balance(s), ticker, price, amount_usd)
    ELSE Result(s, "Unknown Action", "none")

execute_trade(s, ticker, action, price, amount_usd) ==
    LET balance == get_balance(s) IN
    IF action = "BUY" THEN
        IF RLt(balance, amount_usd) THEN Result(s, "Insufficient Funds", "none")
        ELSE execute_buy(s, balance, ticker, price, amount_usd)
    ELSE Result(s, "Unknown Action", "none")

(***************************************************************************)
(* log_pending_order: one INSERT into orders, committed.  The id of a row  *)
(* is its place in the sequence.                                           *)
(***************************************************************************)
log_pending_order(s, ticker, order_type, price, amount_usd) ==
    LET qty == IF RLt(Zero, price) THEN RDiv(amount_usd, price) ELSE Zero
        row == [ticker |-> ticker, type |-> order_type, target_price |-> price,
                amount |-> qty, status |-> "OPEN"]
    IN Result(commit([s EXCEPT !.orders = Append(@, row)]), "QUEUED", "none")

(***************************************************************************)
(* check_pending_orders: the SELECT of the OPEN orders of the ticker, and  *)
(* the loop over the rows fetched.  set_status is the UPDATE of one order  *)
(* row by id, limit_fill and stop_trigger are the two branches of the      *)
(* loop body.  An exception of execute_trade ends the loop.  The function  *)
(* has no return statement: it returns None and its list logs is dropped.  *)
(* The status UPDATEs are not committed here.  A message is kept as its    *)
(* kind, ticker and target; the text it is formatted into, like the text   *)
(* of the result messages of the other operations, is left out.            *)
(***************************************************************************)
OpenOrderIds(s, ticker) ==
    SelectSeq([i \in 1..Len(s.orders) |-> i],
              LAMBDA i : s.orders[i].ticker = ticker /\ s.orders[i].status = "OPEN")

Message(kind, ticker, target) == [kind |-> kind, ticker |-> ticker, target |-> target]

Loop(s, logs, exc) == [s |-> s, logs |-> logs, exc |-> exc]

set_status_by_ticker(rows, order_id, status) ==
    [i \in 1..Len(rows) |->
        IF rows[i].ticker = rows[order_id].ticker THEN [rows[i] EXCEPT !.status = status]
        ELSE rows[i]]

set_status(rows, order_id, status) == [rows EXCEPT ![order_id].status = status]

limit_fill(s, order_id, ticker, target, qty, logs) ==
    LET cost == RMul(qty, target)
        r == execute_trade(s, ticker, "BUY", target, cost)
    IN  IF r.exc # "none" THEN Loop(r.s, logs, r.exc)
        ELSE Loop([r.s EXCEPT !.orders = set_status(@, order_id, "FILLED")],
                  Append(logs, Message("LIMIT FILLED", ticker, target)), "none")

stop_trigger_sells(s, order_id, ticker, target, logs) ==
    LET held == IF ticker \in DOMAIN s.positions THEN s.positions[ticker].amount ELSE Zero
    IN Loop([s EXCEPT !.orders = set_status(@, order_id, "TRIGGERED"),
                      !.wallet = RAdd(@, RMul(held, target)),
                      !.positions = [x \in DOMAIN @ \ {ticker} |-> @[x]]],
            Append(logs, Message("STOP LOSS HIT", ticker, target)), "none")

stop_trigger(s, order_id, ticker, target, logs) ==
    Loop([s EXCEPT !.orders = set_status(@, order_id, "TRIGGERED")],
         Append(logs, Message("STOP LOSS HIT", ticker, target)), "none")

RECURSIVE check_loop(_, _, _, _, _, _)
check_loop(s, fetched, ids, ticker, current_price, logs) ==
    IF ids = <<>> THEN Loop(s, logs, "none")
    ELSE
        LET order_id == Head(ids)
            order_type == fetched[order_id].type
            target == fetched[order_id].target_price
            qty == fetched[order_id].amount
            r == IF order_type = "LIMIT_BUY" /\ RLe(current_price, target)
                 THEN limit_fill(s, order_id, ticker, target, qty, logs)
                 ELSE IF order_type = "STOP_LOSS" /\ RLe(current_price, target)
                 THEN stop_trigger(s, order_id, ticker, target, logs)
                 ELSE Loop(s, logs, "none")
        IN  IF r.exc # "none" THEN r
            ELSE check_loop(r.s, fetched, Tail(ids), ticker, current_price, r.logs)

check_pending_orders(s, ticker, current_price) ==
    check_loop(s, s.orders, OpenOrderIds(s, ticker), ticker, current_price, <<>>)

(***************************************************************************)
(* reset_portfolio, clear_positions, deposit_cash.  deposit_cash ends in   *)
(* "return logs" where no name logs is bound: after its commit it raises   *)
(* NameError.                                                              *)
(***************************************************************************)
reset_portfolio_keeps_orders(s, initial_cash) ==
    Result(commit([s EXCEPT !.positions = EmptyPositions,
                            !.wallet = initial_cash,
                            !.hist = [t \in Tickers |-> NoHist]]),
           "RESET COMPLETE", "none")

reset_portfolio(s, initial_cash) ==
    Result(commit([s EXCEPT !.positions = EmptyPositions,
                            !.orders = <<>>,
                            !.wallet = initial_cash,
                            !.hist = [t \in Tickers |-> NoHist]]),
           "RESET COMPLETE", "none")

clear_positions(s) ==
    Result(commit([s EXCEPT !.positions = EmptyPositions,
                            !.orders = <<>>,
                            !.hist = [t \in Tickers |-> NoHist]]),
           "None", "none")

deposit_cash(s, amount) ==
    LET current == get_balance(s)
        new_bal == RAdd(current, amount)
    IN Result(commit([s EXCEPT !.wallet = new_bal]), "None", "NameError")

(***************************************************************************)
(* A restart of the process: the new connection sees the committed         *)
(* tables; _init_db finds the wallet row and inserts nothing.              *)
(***************************************************************************)
restart(s) ==
    [s EXCEPT !.wallet = s.disk.wallet, !.positions = s.disk.positions,
              !.orders = s.disk.orders]

(***************************************************************************)
(* The /sell_all command of the bot, between its first and its last reply: *)
(* the holdings are valued at the quotes fetched for them (sold is the set *)
(* of holdings whose quote was fetched; a failed fetch adds nothing), the  *)
(* total is deposited and then positions and orders are cleared.  An       *)
(* exception of a ledger call ends the handler where it is raised.         *)
(***************************************************************************)
get_holdings(s) == {t \in DOMAIN s.positions : RLt(Zero, s.positions[t].amount)}

RECURSIVE total_liquidation_value(_, _, _)
total_liquidation_value(s, sold, quote) ==
    IF sold = {} THEN Zero
    ELSE LET t == CHOOSE x \in sold : TRUE
         IN RAdd(RMul(s.positions[t].amount, quote[t]),
                 total_liquidation_value(s, sold \ {t}, quote))

cmd_sell_all(s, sold, quote) ==
    IF get_holdings(s) = {} THEN Result(s, "already empty", "none")
    ELSE LET d == deposit_cash(s, total_liquidation_value(s, sold, quote))
         IN IF d.exc # "none" THEN Result(d.s, "None", d.exc)
            ELSE Result(clear_positions(d.s).s, "LIQUIDATION COMPLETE", "none")

(***************************************************************************)
(* The state of the model and the calls made on it.  last is the call      *)
(* that led to the state: which operation, what it returned ("None" for    *)
(* Python's None), which exception it raised ("none" when it returned),    *)
(* and for the two bulk deletes how many rows the tables held.             *)
(***************************************************************************)
Ledger == [wallet |-> wallet, positions |-> positions, orders |-> orders,
           disk |-> disk, hist |-> hist]

Becomes(s) ==
    /\ wallet' = s.wallet
    /\ positions' = s.positions
    /\ orders' = s.orders
    /\ disk' = s.disk
    /\ hist' = s.hist

(***************************************************************************)
(* The two callers of run_market_scan: the repeating job and /scan.  A     *)
(* scan that has not started holds no locals.                              *)
(***************************************************************************)
Scans == {"job", "manual"}

Idle == [pc |-> "idle", left |-> 0, ticker |-> "", cash |-> Zero,
         spent |-> Zero, overlapped |-> FALSE]

Rows == Cardinality(DOMAIN positions) + Len(orders)

Call(op, ret, exc, rows) == [op |-> op, ret |-> ret, exc |-> exc, rows |-> rows]

Init ==
    \E initial_cash \in Cash :
        /\ wallet = R(initial_cash)
        /\ positions = EmptyPositions
        /\ orders = <<>>
        /\ disk = [wallet |-> R(initial_cash), positions |-> EmptyPositions, orders |-> <<>>]
        /\ hist = [t \in Tickers |-> NoHist]
        /\ last = Call("__init__", "None", "none", 0)
        /\ scans = [c \in Scans |-> Idle]
        /\ running = "none"

RECURSIVE SumSeq(_)
SumSeq(q) == IF q = <<>> THEN Zero ELSE RAdd(Head(q), SumSeq(Tail(q)))

RECURSIVE SumOver(_, _)
SumOver(f, S) ==
    IF S = {} THEN Zero
    ELSE LET x == CHOOSE y \in S : TRUE IN RAdd(f[x], SumOver(f, S \ {x}))

Invested == SumOver([t \in Tickers |-> get_position_exposure(Ledger, t)], Tickers)

ExecuteTradeStep(ticker, action, price, amount_usd) ==
    LET r == execute_trade(Ledger, ticker, action, price, amount_usd)
    IN /\ Becomes(r.s)
       /\ last' = Call("execute_trade", r.ret, r.exc, 0)

ExecuteTrade ==
    \E ticker \in Tickers, action \in Actions, p \in Prices, a \in Amounts :
        /\ ExecuteTradeStep(ticker, action, R(p), R(a))
        /\ UNCHANGED scanvars

LogPendingOrderStep(ticker, order_type, price, amount_usd) ==
    LET r == log_pending_order(Ledger, ticker, order_type, price, amount_usd)
    IN /\ Becomes(r.s)
       /\ last' = Call("log_pending_order", r.ret, r.exc, 0)

OrderAmounts(order_type) ==
    IF order_type = "STOP_LOSS" THEN {0} ELSE Amounts \ {0}

LogPendingOrderUpTo(n) ==
    \E ticker \in Tickers, order_type \in OrderTypes, p \in Prices :
      \E a \in OrderAmounts(order_type) :
        /\ Len(orders) < n
        /\ LogPendingOrderStep(ticker, order_type, R(p), R(a))
        /\ UNCHANGED scanvars

LogPendingOrder == LogPendingOrderUpTo(MaxOrders)

LogOneOrder == LogPendingOrderUpTo(1)

CheckPendingOrdersStep(ticker, current_price) ==
    LET r == check_pending_orders(Ledger, ticker, current_price)
    IN /\ Becomes(r.s)
       /\ last' = Call("check_pending_orders", "None", r.exc, 0)

CheckPendingOrders ==
    \E ticker \in Tickers, p \in Prices :
        /\ CheckPendingOrdersStep(ticker, R(p))
        /\ UNCHANGED scanvars

ResetPortfolioStep(initial_cash) ==
    LET r == reset_portfolio(Ledger, initial_cash)
    IN /\ Becomes(r.s)
       /\ last' = Call("reset_portfolio", r.ret, r.exc, Rows)

ResetPortfolio == \E c \in Cash : ResetPortfolioStep(R(c)) /\ UNCHANGED scanvars

ClearPositions ==
    LET r == clear_positions(Ledger)
    IN /\ Becomes(r.s)
       /\ last' = Call("clear_positions", r.ret, r.exc, Rows)
       /\ UNCHANGED scanvars

DepositCashStep(amount) ==
    LET r == deposit_cash(Ledger, amount)
    IN /\ Becomes(r.s)
       /\ last' = Call("deposit_cash", r.ret, r.exc, 0)

DepositCash ==
    \E a \in Amounts :
        /\ RLe(RAdd(RAdd(wallet, Invested), R(a)), R(MaxCash))
        /\ DepositCashStep(R(a))
        /\ UNCHANGED scanvars

Restart ==
    /\ Becomes(restart(Ledger))
    /\ last' = Call("restart", "None", "none", 0)
    /\ UNCHANGED scanvars

Next ==
    \/ ExecuteTrade
    \/ LogPendingOrder
    \/ CheckPendingOrders
    \/ ResetPortfolio
    \/ ClearPositions
    \/ DepositCash
    \/ Restart

Spec == Init /\ [][Next]_vars

(***************************************************************************)
(* The same ledger with at most one order queued at a time.                *)
(***************************************************************************)
NextTrade ==
    \/ ExecuteTrade
    \/ LogOneOrder
    \/ CheckPendingOrders
    \/ ResetPortfolio
    \/ ClearPositions
    \/ DepositCash
    \/ Restart

SpecTrade == Init /\ [][NextTrade]_vars

(***************************************************************************)
(* The order book alone: orders are queued and evaluated, and the process  *)
(* restarts; the positions are those the limit fills buy.                  *)
(***************************************************************************)
NextOrders ==
    \/ LogPendingOrder
    \/ CheckPendingOrders
    \/ Restart

SpecOrders == Init /\ [][NextOrders]_vars

(***************************************************************************)
(* The ledger of SpecTrade with the /sell_all command.                     *)
(***************************************************************************)
CmdSellAllStep(sold, quote) ==
    LET r == cmd_sell_all(Ledger, sold, quote)
    IN /\ Becomes(r.s)
       /\ last' = Call("cmd_sell_all", r.ret, r.exc, Rows)

CmdSellAll ==
    \E sold \in SUBSET get_holdings(Ledger), quote \in [Tickers -> {R(p) : p \in Prices}] :
        /\ RLe(RAdd(RAdd(wallet, Invested), total_liquidation_value(Ledger, sold, quote)),
               R(MaxCash))
        /\ CmdSellAllStep(sold, quote)
        /\ UNCHANGED scanvars

NextSellAll ==
    \/ NextTrade
    \/ CmdSellAll

SpecSellAll == Init /\ [][NextSellAll]_vars

(***************************************************************************)
(* run_market_scan.  The trader starts with InitialCash.  A scan takes up  *)
(* to MaxCandidates candidates from scan_market and handles them one by    *)
(* one: a candidate with no report or a score below 70 is skipped; for the *)
(* others the scan reads the balance, asks for a strategy (a synchronous   *)
(* call), places the spot buy, the limit order and the stop loss, and      *)
(* awaits the sending of the notification.  The strategy is drawn when it  *)
(* is used.                                                                *)
(***************************************************************************)
InitialCash == 10000
MinTradeUsd == 10
Percent == 100

Strategies ==
    {[spot_pct |-> 50, limit_pct |-> 0, limit_price |-> 1, stop_loss |-> 1],
     [spot_pct |-> 100, limit_pct |-> 50, limit_price |-> 1, stop_loss |-> 1],
     [spot_pct |-> 0, limit_pct |-> 50, limit_price |-> 1, stop_loss |-> 1]}

\* The price in the report of a ticker, the same for the scans that overlap.
Quote == [t \in Tickers |-> IF t = "X" THEN 1 ELSE 2]

\* The coroutine is suspended at these positions and the event loop may run
\* another one: the await of the notification, and the end of the scan.
AwaitsAfterBalanceRead(pc) == pc \in {"strategy", "notify", "done"}

AwaitsAt(pc) == pc \in {"notify", "done"}

MayRun(c) ==
    \/ running = c
    \/ running = "none" /\ (scans[c].pc = "idle" \/ AwaitsAt(scans[c].pc))

\* The scan c goes on with the locals l, and keeps the loop unless it awaits.
Goes(c, l) ==
    /\ scans' = [scans EXCEPT ![c] = l]
    /\ running' = IF AwaitsAt(l.pc) THEN "none" ELSE c

Overlaps(c) == \E d \in Scans \ {c} : scans[d].pc \notin {"idle", "done"}

\* Lines 222-236: the spot buy, the limit order and the stop loss of one
\* candidate.  spent is the amount of the buy when it reported success.
place_trades(s, ticker, cash, current_price, strategy) ==
    LET spot_amt == RMul(cash, RDiv(R(strategy.spot_pct), R(Percent)))
        limit_amt == RMul(cash, RDiv(R(strategy.limit_pct), R(Percent)))
        spot == IF strategy.spot_pct > 0 /\ RLt(R(MinTradeUsd), spot_amt)
                THEN execute_trade(s, ticker, "BUY", current_price, spot_amt)
                ELSE Result(s, "None", "none")
        limit == IF strategy.limit_pct > 0 /\ RLt(R(MinTradeUsd), limit_amt)
                 THEN log_pending_order(spot.s, ticker, "LIMIT_BUY",
                                        R(strategy.limit_price), limit_amt)
                 ELSE Result(spot.s, "None", "none")
        stop == log_pending_order(limit.s, ticker, "STOP_LOSS", R(strategy.stop_loss), Zero)
    IN IF spot.exc # "none"
       THEN [s |-> spot.s, ret |-> "None", exc |-> spot.exc, spent |-> Zero]
       ELSE [s |-> stop.s, ret |-> spot.ret, exc |-> "none",
             spent |-> IF spot.ret = "BOUGHT" THEN spot_amt ELSE Zero]

InitScan ==
    /\ wallet = R(InitialCash)
    /\ positions = EmptyPositions
    /\ orders = <<>>
    /\ disk = [wallet |-> R(InitialCash), positions |-> EmptyPositions, orders |-> <<>>]
    /\ hist = [t \in Tickers |-> NoHist]
    /\ last = Call("__init__", "None", "none", 0)
    /\ scans = [c \in Scans |-> Idle]
    /\ running = "none"

\* Lines 181-187: the scan starts and scan_market returns its candidates.
ScanStart(c) ==
    /\ scans[c].pc = "idle"
    /\ MayRun(c)
    /\ \E n \in 0..MaxCandidates :
         Goes(c, [Idle EXCEPT !.pc = "candidates", !.left = n, !.overlapped = Overlaps(c)])
    /\ last' = Call("run_market_scan", "None", "none", 0)
    /\ UNCHANGED <<wallet, positions, orders, disk, hist>>

\* Line 189 and line 262: the loop is over and the scan returns.
ScanDone(c) ==
    /\ scans[c].pc = "candidates"
    /\ MayRun(c)
    /\ scans[c].left = 0
    /\ Goes(c, [scans[c] EXCEPT !.pc = "done"])
    /\ last' = Call("run_market_scan", "None", "none", 0)
    /\ UNCHANGED <<wallet, positions, orders, disk, hist>>

\* Lines 189-208: the next candidate has no report or a low score.
ScanSkip(c) ==
    /\ scans[c].pc = "candidates"
    /\ MayRun(c)
    /\ scans[c].left > 0
    /\ Goes(c, [scans[c] EXCEPT !.left = @ - 1])
    /\ last' = Call("run_market_scan", "None", "none", 0)
    /\ UNCHANGED <<wallet, positions, orders, disk, hist>>

\* Lines 189-216: the next candidate passes the filter; the balance is read.
ScanReadBalance(c) ==
    /\ scans[c].pc = "candidates"
    /\ MayRun(c)
    /\ scans[c].left > 0
    /\ \E ticker \in Tickers :
         Goes(c, [scans[c] EXCEPT !.pc = "strategy", !.left = @ - 1, !.ticker = ticker,
                                  !.cash = get_balance(Ledger)])
    /\ last' = Call("run_market_scan", "None", "none", 0)
    /\ UNCHANGED <<wallet, positions, orders, disk, hist>>

\* Lines 218-219: get_ai_strategy returns no strategy.
ScanNoStrategy(c) ==
    /\ scans[c].pc = "strategy"
    /\ MayRun(c)
    /\ Goes(c, [scans[c] EXCEPT !.pc = "candidates", !.ticker = "", !.cash = Zero])
    /\ last' = Call("run_market_scan", "None", "none", 0)
    /\ UNCHANGED <<wallet, positions, orders, disk, hist>>

\* Lines 218-260: the strategy is there, the trades are placed and the scan
\* awaits the sending of the notification.
ScanTradeStep(c, current_price, strategy) ==
    LET r == place_trades(Ledger, scans[c].ticker, scans[c].cash, current_price, strategy)
    IN /\ Becomes(r.s)
       /\ Goes(c, [scans[c] EXCEPT !.pc = IF r.exc = "none" THEN "notify" ELSE "done",
                                   !.ticker = "", !.cash = Zero,
                                   !.spent = RAdd(@, r.spent)])
       /\ last' = Call("run_market_scan", r.ret, r.exc, 0)

ScanTrade(c) ==
    /\ scans[c].pc = "strategy"
    /\ MayRun(c)
    /\ \E strategy \in Strategies : ScanTradeStep(c, R(Quote[scans[c].ticker]), strategy)

\* Lines 256-260: the notification is sent and the loop goes on.
ScanResume(c) ==
    /\ scans[c].pc = "notify"
    /\ MayRun(c)
    /\ Goes(c, [scans[c] EXCEPT !.pc = "candidates", !.overlapped = @ \/ Overlaps(c)])
    /\ last' = Call("run_market_scan", "None", "none", 0)
    /\ UNCHANGED <<wallet, positions, orders, disk, hist>>

NextScan ==
    \E c \in Scans :
        \/ ScanStart(c)
        \/ ScanDone(c)
        \/ ScanSkip(c)
        \/ ScanReadBalance(c)
        \/ ScanNoStrategy(c)
        \/ ScanTrade(c)
        \/ ScanResume(c)

SpecScan == InitScan /\ [][NextScan]_vars

(***************************************************************************)
(* Properties of the buys.                                                 *)
(***************************************************************************)
Qty(rows, ticker) == IF ticker \in DOMAIN rows THEN rows[ticker].amount ELSE Zero

View == <<wallet, positions, orders>>

\* C1: a call of execute_trade that does not report a buy leaves the
\* ledger as it was, in the connection's view and on disk: a BUY of more
\* than the balance returns the insufficient-funds result, an action other
\* than BUY returns the unknown-action result.
FailedTradeChangesNothing ==
    [][\A ticker \in Tickers, action \in Actions, p \in Prices, a \in Amounts :
         (last'.op = "execute_trade" /\ ExecuteTradeStep(ticker, action, R(p), R(a))) =>
            /\ (action = "BUY" /\ RLt(wallet, R(a)) => last'.ret = "Insufficient Funds")
            /\ (action # "BUY" => last'.ret = "Unknown Action")
            /\ (last'.ret # "BOUGHT" => UNCHANGED <<View, disk>>)]_vars

FailedTradeSeen ==
    /\ last.op = "execute_trade"
    /\ last.ret = "Insufficient Funds"
    /\ DOMAIN positions # {}
    /\ orders # <<>>

\* C2: a BUY at a positive price of a positive amount that the balance
\* covers (the whole balance included) succeeds, lowers the wallet by the
\* amount and raises the ticker's quantity by amount / price, and the
\* committed tables hold both changes; no execute_trade of a positive
\* amount commits one of the two without the other.
BuyAppliesBoth ==
    [][\A ticker \in Tickers, p \in Prices, a \in Amounts \ {0} :
         (last'.op = "execute_trade" /\ ExecuteTradeStep(ticker, "BUY", R(p), R(a))) =>
            /\ RLe(R(a), wallet) =>
                 /\ last'.ret = "BOUGHT" /\ last'.exc = "none"
                 /\ wallet' = RSub(wallet, R(a))
                 /\ Qty(positions', ticker) = RAdd(Qty(positions, ticker), RDiv(R(a), R(p)))
                 /\ disk'.wallet = wallet'
                 /\ disk'.positions = positions'
            /\ (disk'.wallet = disk.wallet) <=> (disk'.positions = disk.positions)]_vars

WholeBalanceBought ==
    /\ last.op = "execute_trade"
    /\ last.ret = "BOUGHT"
    /\ wallet = Zero
    /\ \E t \in DOMAIN positions : positions[t].amount = <<1, 2>>
    /\ disk.wallet = wallet /\ disk.positions = positions

\* C3 as stated: the average cost of a position is the dollar-weighted
\* mean of the prices of its buys, sum(amount * price) / sum(amount), and
\* its quantity is the sum of amount / price.
AvgIsDollarWeightedMean ==
    \A t \in DOMAIN positions :
        /\ positions[t].amount = hist[t].qty
        /\ hist[t].spent # Zero =>
             positions[t].avg_cost = RDiv(hist[t].pxspent, hist[t].spent)

\* C3: the quantity of a position is the sum of amount / price over its
\* buys, and when that is not zero its average cost is the dollars of the
\* buys divided by the quantity, sum(amount) / sum(amount / price).
AvgIsCostPerUnit ==
    \A t \in DOMAIN positions :
        /\ positions[t].amount = hist[t].qty
        /\ hist[t].qty # Zero =>
             positions[t].avg_cost = RDiv(hist[t].spent, hist[t].qty)

TwoPricesAveraged ==
    \E t \in DOMAIN positions :
        /\ hist[t].spent = R(2) /\ hist[t].pxspent = R(3)
        /\ positions[t].avg_cost = <<4, 3>>

\* C4: quantity * avg_cost of a position is the dollars taken from the
\* wallet for the ticker since the row was created, by buys and by limit
\* fills.
CostBasis ==
    \A t \in DOMAIN positions :
        RMul(positions[t].amount, positions[t].avg_cost) = hist[t].deducted

CostBasisAfterFill ==
    \E t \in DOMAIN positions :
        /\ positions[t].amount = <<3, 2>>
        /\ hist[t].deducted = R(2)
        /\ \E i \in 1..Len(orders) :
              /\ orders[i].ticker = t /\ orders[i].status = "FILLED"
              /\ last.op = "check_pending_orders"

(***************************************************************************)
(* Properties of the bulk operations.                                      *)
(***************************************************************************)
\* C5: reset_portfolio(X) leaves the balance X, no position and no order,
\* in the view and on disk, and a second reset_portfolio(X) changes nothing.
ResetIsTerminal ==
    [][\A c \in Cash :
         (last'.op = "reset_portfolio" /\ ResetPortfolioStep(R(c))) =>
            /\ wallet' = R(c)
            /\ positions' = EmptyPositions
            /\ orders' = <<>>
            /\ disk' = [wallet |-> R(c), positions |-> EmptyPositions, orders |-> <<>>]
            /\ last'.exc = "none"
            /\ Tables(reset_portfolio(Ledger', R(c)).s) = Tables(Ledger')
            /\ reset_portfolio(Ledger', R(c)).s.disk = disk']_vars

ResetOfFullLedger ==
    /\ last.op = "reset_portfolio"
    /\ last.rows = 3
    /\ wallet = R(1)

\* C6: clear_positions does not change the balance; deposit_cash(V) adds V
\* to the balance, changes no position and no order and returns to its
\* caller; after the two in a row the ledger holds no position and no order.
ClearThenDeposit ==
    [][/\ last'.op = "clear_positions" =>
            /\ wallet' = wallet
            /\ positions' = EmptyPositions /\ orders' = <<>>
            /\ last'.exc = "none"
       /\ \A a \in Amounts :
            (last'.op = "deposit_cash" /\ DepositCashStep(R(a))) =>
               /\ wallet' = RAdd(wallet, R(a))
               /\ UNCHANGED <<positions, orders>>
               /\ last'.exc = "none"
               /\ last.op = "clear_positions" =>
                    positions' = EmptyPositions /\ orders' = <<>>]_vars

(***************************************************************************)
(* Properties of check_pending_orders.                                     *)
(***************************************************************************)
Due(o, ticker, current_price) ==
    /\ o.ticker = ticker
    /\ o.status = "OPEN"
    /\ RLe(current_price, o.target_price)

DueIds(ticker, current_price, order_type) ==
    {i \in 1..Len(orders) :
        Due(orders[i], ticker, current_price) /\ orders[i].type = order_type}

DueQty(ticker, current_price) ==
    SumSeq([i \in 1..Len(orders) |->
              IF i \in DueIds(ticker, current_price, "LIMIT_BUY")
              THEN orders[i].amount ELSE Zero])

DueCost(ticker, current_price) ==
    SumSeq([i \in 1..Len(orders) |->
              IF i \in DueIds(ticker, current_price, "LIMIT_BUY")
              THEN RMul(orders[i].amount, orders[i].target_price) ELSE Zero])

\* C7: an OPEN LIMIT_BUY order of the ticker with a positive target is
\* FILLED by check_pending_orders exactly when current_price <= target;
\* the fills lower the wallet by their dollar amounts and raise the
\* quantity of the position by their quantities, and a single fill with no
\* position before makes the position's cost the target.
LimitFillBuys ==
    [][\A ticker \in Tickers, p \in Prices :
         (last'.op = "check_pending_orders" /\ CheckPendingOrdersStep(ticker, R(p))) =>
            /\ \A i \in 1..Len(orders) :
                 (/\ orders[i].ticker = ticker /\ orders[i].type = "LIMIT_BUY"
                  /\ orders[i].status = "OPEN" /\ RLt(Zero, orders[i].target_price))
                 => orders'[i].status =
                      IF RLe(R(p), orders[i].target_price) THEN "FILLED" ELSE "OPEN"
            /\ wallet' = RSub(wallet, DueCost(ticker, R(p)))
            /\ Qty(positions', ticker) = RAdd(Qty(positions, ticker), DueQty(ticker, R(p)))
            /\ \A i \in DueIds(ticker, R(p), "LIMIT_BUY") :
                 (DueIds(ticker, R(p), "LIMIT_BUY") = {i} /\ ticker \notin DOMAIN positions)
                 => positions'[ticker].avg_cost = orders[i].target_price]_vars

\* C8: an OPEN STOP_LOSS order of the ticker becomes TRIGGERED when
\* current_price <= target and stays OPEN otherwise, and a call in which no
\* LIMIT_BUY order is due changes neither the wallet nor a position.
StopLossOnlyFlags ==
    [][\A ticker \in Tickers, p \in Prices :
         (last'.op = "check_pending_orders" /\ CheckPendingOrdersStep(ticker, R(p))) =>
            /\ \A i \in 1..Len(orders) :
                 (/\ orders[i].ticker = ticker /\ orders[i].type = "STOP_LOSS"
                  /\ orders[i].status = "OPEN")
                 => orders'[i].status =
                      IF RLe(R(p), orders[i].target_price) THEN "TRIGGERED" ELSE "OPEN"
            /\ DueIds(ticker, R(p), "LIMIT_BUY") = {} => UNCHANGED <<wallet, positions>>]_vars

StopLossTriggeredOnHolding ==
    /\ last.op = "check_pending_orders"
    /\ \E i \in 1..Len(orders) :
         /\ orders[i].type = "STOP_LOSS" /\ orders[i].status = "TRIGGERED"
         /\ orders[i].ticker \in DOMAIN positions
         /\ RLt(Zero, positions[orders[i].ticker].amount)

\* C9: check_pending_orders(ticker, current_price) adds and removes no
\* order, changes no order's ticker, kind, target price or quantity, and
\* leaves every order that is not an OPEN order of the ticker with
\* current_price <= target exactly as it was.
OtherOrdersUntouched ==
    [][\A ticker \in Tickers, p \in Prices :
         (last'.op = "check_pending_orders" /\ CheckPendingOrdersStep(ticker, R(p))) =>
            /\ Len(orders') = Len(orders)
            /\ \A i \in 1..Len(orders) :
                 /\ [orders'[i] EXCEPT !.status = "OPEN"] = [orders[i] EXCEPT !.status = "OPEN"]
                 /\ ~Due(orders[i], ticker, R(p)) => orders'[i] = orders[i]]_vars

OneTriggeredOneLeftOpen ==
    /\ last.op = "check_pending_orders"
    /\ \E i, j \in 1..Len(orders) :
         /\ orders[i].ticker = orders[j].ticker
         /\ orders[i].status = "TRIGGERED"
         /\ orders[j].status = "OPEN" /\ orders[j].type = "STOP_LOSS"

\* C10: check_pending_orders returns a list with one message for each
\* order it moved out of OPEN.
CheckReturnsMessages ==
    [][last'.op = "check_pending_orders" =>
         /\ last'.ret # "None"
         /\ Len(last'.ret) =
              Cardinality({i \in 1..Len(orders) :
                             orders[i].status = "OPEN" /\ orders'[i].status # "OPEN"})]_vars

(***************************************************************************)
(* Properties of the order book over every call.                           *)
(***************************************************************************)
\* C11: an order is created only by log_pending_order, with status OPEN,
\* by a call that does not fail and changes neither wallet nor position;
\* from then on its ticker, kind, target price and quantity stay as they
\* are, its status moves only from OPEN to FILLED (a LIMIT_BUY) or from
\* OPEN to TRIGGERED (a STOP_LOSS) and never out of FILLED or TRIGGERED,
\* and order rows disappear only in reset_portfolio and clear_positions.
OrderLifecycle ==
    [][/\ last'.op = "log_pending_order" =>
            /\ last'.exc = "none"
            /\ Len(orders') = Len(orders) + 1
            /\ orders'[Len(orders')].status = "OPEN"
            /\ UNCHANGED <<wallet, positions>>
       /\ last'.op # "log_pending_order" => Len(orders') <= Len(orders)
       /\ last'.op \notin {"reset_portfolio", "clear_positions"} =>
            /\ Len(orders') >= Len(orders)
            /\ \A i \in 1..Len(orders) :
                 /\ [orders'[i] EXCEPT !.status = "OPEN"] = [orders[i] EXCEPT !.status = "OPEN"]
                 /\ \/ orders'[i].status = orders[i].status
                    \/ /\ orders[i].status = "OPEN"
                       /\ orders'[i].status =
                            IF orders[i].type = "LIMIT_BUY" THEN "FILLED" ELSE "TRIGGERED"]_vars

(***************************************************************************)
(* Invariants of the stored rows, for calls with positive prices and       *)
(* dollar amounts that are not negative.                                   *)
(***************************************************************************)
\* C12: every stored position row has a quantity above zero and an average
\* cost that is not negative, in the connection's view and on disk; no row
\* with quantity zero is ever stored.
PositionRowsPositive ==
    \A rows \in {positions, disk.positions} :
        \A t \in DOMAIN rows :
            /\ RLt(Zero, rows[t].amount)
            /\ RLe(Zero, rows[t].avg_cost)

\* C13: the wallet balance is never negative, in the connection's view and
\* on disk, whatever buys, limit fills, deposits and resets were made.
WalletNeverNegative ==
    /\ RLe(Zero, wallet)
    /\ RLe(Zero, disk.wallet)

RefusedAfterFillSpentAll ==
    /\ last.op = "execute_trade"
    /\ last.ret = "Insufficient Funds"
    /\ wallet = Zero
    /\ \E i \in 1..Len(orders) :
         /\ orders[i].status = "FILLED"
         /\ RLt(Zero, Qty(positions, orders[i].ticker))

(***************************************************************************)
(* Properties of the limit fills.                                          *)
(***************************************************************************)
NewlyFilled == {i \in 1..Len(orders) : orders[i].status = "OPEN" /\ orders'[i].status = "FILLED"}

FillQty(ids) ==
    SumSeq([i \in 1..Len(orders) |-> IF i \in ids THEN orders[i].amount ELSE Zero])

FillCost(ids) ==
    SumSeq([i \in 1..Len(orders) |->
              IF i \in ids THEN RMul(orders[i].amount, orders[i].target_price) ELSE Zero])

\* C15: check_pending_orders marks a LIMIT_BUY order FILLED only when its
\* buy succeeded: the orders a call moves to FILLED have had their cost,
\* quantity * target, taken from the wallet and their quantity added to the
\* position, and a due order that the wallet cannot cover stays OPEN.
FilledOnlyIfBought ==
    [][\A ticker \in Tickers, p \in Prices :
         (last'.op = "check_pending_orders" /\ CheckPendingOrdersStep(ticker, R(p))) =>
            /\ wallet' = RSub(wallet, FillCost(NewlyFilled))
            /\ Qty(positions', ticker) = RAdd(Qty(positions, ticker), FillQty(NewlyFilled))
            /\ \A i \in DueIds(ticker, R(p), "LIMIT_BUY") :
                 RLt(wallet, RMul(orders[i].amount, orders[i].target_price))
                 => orders'[i].status = "OPEN"]_vars

FilledQty(rows, ticker) ==
    SumSeq([i \in 1..Len(rows) |->
              IF rows[i].ticker = ticker /\ rows[i].type = "LIMIT_BUY" /\ rows[i].status = "FILLED"
              THEN rows[i].amount ELSE Zero])

\* C16: when check_pending_orders has returned, the statuses it set are
\* committed, and so no order buys twice, a restart of the process
\* included: where limit fills are the only buys, the committed quantity
\* of a ticker is at most the quantity of its committed FILLED orders.
FillCommittedOnce ==
    /\ (last.op = "check_pending_orders" /\ last.exc = "none") => disk.orders = orders
    /\ \A t \in Tickers : RLe(Qty(disk.positions, t), FilledQty(disk.orders, t))

(***************************************************************************)
(* Properties of the commands of the bot.                                  *)
(***************************************************************************)
\* C14: /sell_all on a ledger with a holding finishes its update of the
\* database: the handler raises nothing, the wallet has grown by the total
\* liquidation value, once, no position and no order is left, in the view
\* and on disk, and a second /sell_all finds no holding and credits nothing.
SellAllLiquidatesOnce ==
    [][\A sold \in SUBSET Tickers, quote \in [Tickers -> {R(p) : p \in Prices}] :
         (/\ last'.op = "cmd_sell_all"
          /\ sold \subseteq get_holdings(Ledger)
          /\ CmdSellAllStep(sold, quote)
          /\ get_holdings(Ledger) # {}) =>
            /\ last'.exc = "none"
            /\ wallet' = RAdd(wallet, total_liquidation_value(Ledger, sold, quote))
            /\ positions' = EmptyPositions /\ orders' = <<>>
            /\ disk' = [wallet |-> wallet', positions |-> EmptyPositions, orders |-> <<>>]
            /\ get_holdings(Ledger') = {}]_vars

\* C17: when the periodic scan and a manual scan overlap, no other
\* coroutine runs between a candidate's balance read and its trades (the
\* balance the scan holds is the wallet's and the scan has the event
\* loop), and no wallet update is lost: the balance is the starting balance
\* less the amounts of the buys that reported success, and the quantity of
\* each position is the sum of the quantities of those buys.
ScansLoseNoUpdate ==
    /\ \A c \in Scans :
         scans[c].pc = "strategy" => running = c /\ scans[c].cash = wallet
    /\ wallet = RSub(R(InitialCash), SumOver([c \in Scans |-> scans[c].spent], Scans))
    /\ \A t \in Tickers : Qty(positions, t) = hist[t].qty

BothScansBoughtOverlapping ==
    /\ \A c \in Scans :
         /\ scans[c].pc = "done"
         /\ scans[c].overlapped
         /\ RLt(Zero, scans[c].spent)
    /\ \E t \in Tickers : RLt(R(InitialCash \div 2), hist[t].spent)
====
